---- MODULE Spec2Model ----
(***************************************************************************)
(* A model of shoyo/sudoku (src/src/main.rs): the Sudoku board, its        *)
(* construction (Sudoku::new), the checks (verify, valid_insert) and the   *)
(* recursive backtracking search (solve), run one step of the call chain   *)
(* at a time with an explicit stack of solve() invocations.                *)
(***************************************************************************)
EXTENDS Integers, Sequences, FiniteSets, TLC

\* ------------------------------------------------------------ constants
ROWS == 9
COLS == 9
CAGE_ROWS == 3
CAGE_COLS == 3

\* Option<T>: None is the empty tuple, Some(x) the one-element tuple.
None == <<>>
Some(x) == <<x>>

RowIdx == 0 .. (ROWS - 1)
ColIdx == 0 .. (COLS - 1)

\* ------------------------------------------------------------ bounds
\* At most MaxEmpty cells of Holes are blanked in an input puzzle.
MaxEmpty == 4
\* At most MaxWrong cells of an input puzzle are overwritten by a Twist.
MaxWrong == 1
\* Length of the entry lists given to Sudoku::new in SpecNew.
MaxEntries == 2

\* ------------------------------------------------------------ Sudoku::new
\* The grid of main.rs:26-33: ROWS rows of COLS cells, all None.
EmptyBoard == [r \in RowIdx |-> [c \in ColIdx |-> None]]

\* On Err Sudoku::new returns no Sudoku: the grid is dropped.
NoBoard == <<>>

\* The bounds check of main.rs:36 (row, col: usize; val: u8).
InvalidTripleNine(row, col, val) ==
    row >= ROWS \/ col >= COLS \/ val = 0 \/ val >= 9

InvalidTriple(row, col, val) ==
    row >= ROWS \/ col >= COLS \/ val = 0 \/ val > 9

\* ------------------------------------------------------------ verify
\* The loop shared by verify_row_, verify_col_ and verify_cage_: cells is the
\* unit's cell contents in scan order, seen the [false; 10] array.
RECURSIVE SeenScanUnmarked(_, _, _)
SeenScanUnmarked(cells, i, seen) ==
    IF i > Len(cells) THEN TRUE
    ELSE IF cells[i] = None THEN FALSE
    ELSE LET val == cells[i][1]
         IN  IF seen[val] \/ val > 9 THEN FALSE
             ELSE SeenScanUnmarked(cells, i + 1, seen)

RECURSIVE SeenScan(_, _, _)
SeenScan(cells, i, seen) ==
    IF i > Len(cells) THEN TRUE
    ELSE IF cells[i] = None THEN FALSE
    ELSE LET val == cells[i][1]
         IN  IF seen[val] \/ val > 9 THEN FALSE
             ELSE SeenScan(cells, i + 1, [seen EXCEPT ![val] = TRUE])

NothingSeen == [v \in 0 .. 9 |-> FALSE]

verify_row_(b, row) ==
    SeenScan([k \in 1 .. COLS |-> b[row][k - 1]], 1, NothingSeen)

verify_col_(b, col) ==
    SeenScan([k \in 1 .. ROWS |-> b[k - 1][col]], 1, NothingSeen)

verify_cage_(b, cage_row, cage_col) ==
    SeenScan([k \in 1 .. (CAGE_ROWS * CAGE_COLS) |->
                 b[cage_row * CAGE_ROWS + ((k - 1) \div CAGE_COLS)]
                  [cage_col * CAGE_COLS + ((k - 1) % CAGE_COLS)]],
             1, NothingSeen)

verify(b) ==
    /\ \A i \in 0 .. (ROWS - 1) : verify_row_(b, i)
    /\ \A j \in 0 .. (COLS - 1) : verify_col_(b, j)
    /\ \A ci \in 0 .. (CAGE_ROWS - 1) : \A cj \in 0 .. (CAGE_COLS - 1) :
          verify_cage_(b, ci, cj)

\* ------------------------------------------------------------ find_open_cell_
\* The inner loop of main.rs:151-155 over the columns of row i, from column j.
RECURSIVE FindInRow(_, _, _)
FindInRow(b, i, j) ==
    IF j >= COLS THEN None
    ELSE IF b[i][j] = None THEN Some(<<i, j>>)
    ELSE FindInRow(b, i, j + 1)

\* The outer loop of main.rs:150-156 over the rows, from row i.
RECURSIVE FindFrom(_, _)
FindFrom(b, i) ==
    IF i >= ROWS THEN None
    ELSE LET cell == FindInRow(b, i, 0)
         IN  IF cell /= None THEN cell ELSE FindFrom(b, i + 1)

\* for j in (0..COLS).rev(): the last open cell of the first row that has one.
find_open_cell_rev(b) ==
    LET cell == FindFrom(b, 0)
    IN  IF cell = None THEN None
        ELSE LET i == cell[1][1]
                 j == CHOOSE x \in ColIdx :
                         /\ b[i][x] = None
                         /\ \A y \in ColIdx : b[i][y] = None => y <= x
             IN  Some(<<i, j>>)

find_open_cell_(b) == FindFrom(b, 0)

\* ------------------------------------------------------------ valid_insert
valid_row_insert_(b, row, val) ==
    ~ \E col \in 0 .. (COLS - 1) : b[row][col] = Some(val)

valid_col_insert_(b, col, val) ==
    ~ \E row \in 0 .. (ROWS - 1) : b[row][col] = Some(val)

valid_cage_insert_unscaled(b, cage_row, cage_col, val) ==
    ~ \E i \in 0 .. (CAGE_ROWS - 1) : \E j \in 0 .. (CAGE_COLS - 1) :
         b[cage_row + i][cage_col + j] = Some(val)

valid_cage_insert_(b, cage_row, cage_col, val) ==
    ~ \E i \in 0 .. (CAGE_ROWS - 1) : \E j \in 0 .. (CAGE_COLS - 1) :
         b[cage_row * CAGE_ROWS + i][cage_col * CAGE_COLS + j] = Some(val)

valid_insert(b, row, col, val) ==
    /\ b[row][col] = None
    /\ valid_row_insert_(b, row, val)
    /\ valid_col_insert_(b, col, val)
    /\ valid_cage_insert_(b, row \div CAGE_ROWS, col \div CAGE_COLS, val)

\* ------------------------------------------------------------ inputs
\* A complete valid grid, and input puzzles made from it.
Solution ==
    << <<2,1,3, 4,5,6, 7,8,9>>,
       <<4,5,6, 7,8,9, 1,2,3>>,
       <<7,8,9, 1,2,3, 4,5,6>>,
       <<1,2,4, 3,6,5, 8,9,7>>,
       <<3,6,5, 8,9,7, 2,1,4>>,
       <<8,9,7, 2,1,4, 3,6,5>>,
       <<5,3,1, 6,4,2, 9,7,8>>,
       <<6,4,2, 9,7,8, 5,3,1>>,
       <<9,7,8, 5,3,1, 6,4,2>> >>

\* Cells that may be left empty: (0,0),(0,1),(3,0),(3,1) hold 2,1 / 1,2 and
\* can be completed two ways when all four are empty.
Holes == { <<0,0>>, <<0,1>>, <<3,0>>, <<3,1>>, <<6,2>> }

\* Cells that may be given another digit: <<row, col, digit>>.
Twists == { <<0,2,1>>, <<8,7,2>> }

\* Complete grids that break exactly one kind of unit: two cells swapped
\* within a row and a cage (columns break), within a column and a cage
\* (rows break), and rows 2 and 3 exchanged (cages break).
Swapped(g, a, b) ==
    [r \in RowIdx |-> [c \in ColIdx |->
        IF <<r, c>> = a THEN g[b[1]][b[2]]
        ELSE IF <<r, c>> = b THEN g[a[1]][a[2]]
        ELSE g[r][c]]]

SolutionGrid == [r \in RowIdx |-> [c \in ColIdx |-> Solution[r + 1][c + 1]]]

BadGrids ==
    { Swapped(SolutionGrid, <<4,4>>, <<4,5>>),
      Swapped(SolutionGrid, <<4,4>>, <<5,4>>),
      [r \in RowIdx |-> SolutionGrid[IF r = 2 THEN 3 ELSE IF r = 3 THEN 2 ELSE r]] }

\* The triples of row r of a grid of digits g from column c on, leaving out
\* the cells in holes and overwriting those named by twists.
RECURSIVE RowEntries(_, _, _, _, _)
RowEntries(g, holes, twists, r, c) ==
    IF c >= COLS THEN <<>>
    ELSE LET tw == {t \in twists : t[1] = r /\ t[2] = c}
             v == IF tw = {} THEN g[r][c] ELSE (CHOOSE t \in tw : TRUE)[3]
         IN  (IF <<r, c>> \in holes THEN <<>> ELSE << <<r, c, v>> >>)
             \o RowEntries(g, holes, twists, r, c + 1)

\* The triples of the whole grid, row-major, from row r on.
RECURSIVE EntriesFrom(_, _, _, _)
EntriesFrom(g, holes, twists, r) ==
    IF r >= ROWS THEN <<>>
    ELSE RowEntries(g, holes, twists, r, 0) \o EntriesFrom(g, holes, twists, r + 1)

PuzzleEntries ==
    { EntriesFrom(SolutionGrid, h, w, 0) :
        <<h, w>> \in { hw \in (SUBSET Holes) \X (SUBSET Twists) :
                         /\ Cardinality(hw[1]) <= MaxEmpty
                         /\ Cardinality(hw[2]) <= MaxWrong } }
    \cup { EntriesFrom(g, {}, {}, 0) : g \in BadGrids }

\* ------------------------------------------------------------ state
VARIABLES
    initial,   \* the triples handed to Sudoku::new
    pc,        \* the caller's position: new, verify, solve, done, rejected
    idx,       \* the triple Sudoku::new is at (1-based position in initial)
    board,     \* the grid: new's local while it runs, then Sudoku.board
    start,     \* the grid Sudoku::new returned (NoBoard before that)
    error,     \* the Err of Sudoku::new, if any
    stack,     \* the active solve() invocations, innermost last
    ret,       \* the Result the last finished solve() returned, "none" while running
    before,    \* verify() before solve(), as in tests::solve_valid_puzzle_*
    after      \* verify() after solve()

vars == <<initial, pc, idx, board, start, error, stack, ret, before, after>>

InitWith(entries) ==
    /\ initial \in entries
    /\ pc = "new"
    /\ idx = 1
    /\ board = EmptyBoard
    /\ start = NoBoard
    /\ error = None
    /\ stack = <<>>
    /\ ret = "none"
    /\ before = None
    /\ after = None

Init == InitWith(PuzzleEntries)

\* Sudoku::new (main.rs:35-51), one triple of the loop per step; the last step
\* is Ok(Self { board }). Err carries the message's kind and numbers.
NewStep ==
    /\ pc = "new"
    /\ IF idx > Len(initial)
       THEN /\ pc' = "verify"
            /\ start' = board
            /\ UNCHANGED <<idx, board, error>>
       ELSE LET row == initial[idx][1]
                col == initial[idx][2]
                val == initial[idx][3]
            IN  IF InvalidTriple(row, col, val)
                THEN /\ pc' = "rejected"
                     /\ board' = NoBoard
                     /\ error' = Some(<<"invalid", val, row, col>>)
                     /\ UNCHANGED <<idx, start>>
                ELSE IF board[row][col] /= None
                THEN /\ pc' = "rejected"
                     /\ board' = NoBoard
                     /\ error' = Some(<<"exists", row, col>>)
                     /\ UNCHANGED <<idx, start>>
                ELSE /\ board' = [board EXCEPT ![row][col] = Some(val)]
                     /\ idx' = idx + 1
                     /\ UNCHANGED <<pc, start, error>>
    /\ UNCHANGED <<initial, stack, ret, before, after>>

\* puzzle.verify() before solving (main.rs:348)
VerifyBefore ==
    /\ pc = "verify"
    /\ before' = Some(verify(board))
    /\ pc' = "solve"
    /\ UNCHANGED <<initial, idx, start, board, error, stack, ret, after>>

\* puzzle.solve() is called by the caller (main.rs:234, :349)
SolveCall ==
    /\ pc = "solve" /\ stack = <<>> /\ ret = "none"
    /\ stack' = << [at |-> "find", row |-> 0, col |-> 0, val |-> 0] >>
    /\ UNCHANGED <<initial, idx, start, pc, board, error, ret, before, after>>

Top == stack[Len(stack)]
Pop == SubSeq(stack, 1, Len(stack) - 1)
SetTop(f) == [stack EXCEPT ![Len(stack)] = f]

\* main.rs:58-61: find the open cell, or return Ok(()) when there is none.
FindOpen ==
    /\ stack /= <<>> /\ Top.at = "find"
    /\ LET cell == find_open_cell_(board)
       IN  IF cell = None
           THEN /\ stack' = Pop
                /\ ret' = "Ok"
           ELSE /\ stack' = SetTop([at |-> "loop", row |-> cell[1][1],
                                    col |-> cell[1][2], val |-> 1])
                /\ ret' = ret
    /\ UNCHANGED <<initial, idx, start, pc, board, error, before, after>>

TryValNoPlace ==
    /\ stack /= <<>> /\ Top.at = "loop" /\ Top.val < 10
    /\ IF valid_insert(board, Top.row, Top.col, Top.val)
       THEN /\ board' = board
            /\ stack' = Append(SetTop([Top EXCEPT !.at = "call"]),
                               [at |-> "find", row |-> 0, col |-> 0, val |-> 0])
       ELSE /\ board' = board
            /\ stack' = SetTop([Top EXCEPT !.val = @ + 1])
    /\ UNCHANGED <<initial, idx, start, pc, error, ret, before, after>>

\* main.rs:62-65: one iteration of for val in 1..10, up to the recursive call.
TryVal ==
    /\ stack /= <<>> /\ Top.at = "loop" /\ Top.val < 10
    /\ IF valid_insert(board, Top.row, Top.col, Top.val)
       THEN /\ board' = [board EXCEPT ![Top.row][Top.col] = Some(Top.val)]
            /\ stack' = Append(SetTop([Top EXCEPT !.at = "call"]),
                               [at |-> "find", row |-> 0, col |-> 0, val |-> 0])
       ELSE /\ board' = board
            /\ stack' = SetTop([Top EXCEPT !.val = @ + 1])
    /\ UNCHANGED <<initial, idx, start, pc, error, ret, before, after>>

ReturnOkUndo ==
    /\ stack /= <<>> /\ Top.at = "call" /\ ret = "Ok"
    /\ board' = [board EXCEPT ![Top.row][Top.col] = None]
    /\ stack' = Pop
    /\ UNCHANGED <<initial, idx, start, pc, error, ret, before, after>>

\* main.rs:66: the recursive call returned Ok: return Ok(()).
ReturnOk ==
    /\ stack /= <<>> /\ Top.at = "call" /\ ret = "Ok"
    /\ stack' = Pop
    /\ UNCHANGED <<initial, idx, start, pc, board, error, ret, before, after>>

\* Err(_) => {} : the placement is left in the cell.
ReturnErrNoUndo ==
    /\ stack /= <<>> /\ Top.at = "call" /\ ret = "Err"
    /\ board' = board
    /\ stack' = SetTop([Top EXCEPT !.at = "loop", !.val = @ + 1])
    /\ ret' = "none"
    /\ UNCHANGED <<initial, idx, start, pc, error, before, after>>

\* self.solve()? : the first failure is passed up, after undoing.
ReturnErrPropagate ==
    /\ stack /= <<>> /\ Top.at = "call" /\ ret = "Err"
    /\ board' = [board EXCEPT ![Top.row][Top.col] = None]
    /\ stack' = Pop
    /\ ret' = "Err"
    /\ UNCHANGED <<initial, idx, start, pc, error, before, after>>

\* The loop does not move on to the next value.
ReturnErrRetry ==
    /\ stack /= <<>> /\ Top.at = "call" /\ ret = "Err"
    /\ board' = [board EXCEPT ![Top.row][Top.col] = None]
    /\ stack' = SetTop([Top EXCEPT !.at = "loop"])
    /\ ret' = "none"
    /\ UNCHANGED <<initial, idx, start, pc, error, before, after>>

\* main.rs:67: the recursive call returned Err: undo and go on with the loop.
ReturnErr ==
    /\ stack /= <<>> /\ Top.at = "call" /\ ret = "Err"
    /\ board' = [board EXCEPT ![Top.row][Top.col] = None]
    /\ stack' = SetTop([Top EXCEPT !.at = "loop", !.val = @ + 1])
    /\ ret' = "none"
    /\ UNCHANGED <<initial, idx, start, pc, error, before, after>>

\* main.rs:71: the loop ran out: Err(()).
LoopEnd ==
    /\ stack /= <<>> /\ Top.at = "loop" /\ Top.val >= 10
    /\ stack' = Pop
    /\ ret' = "Err"
    /\ UNCHANGED <<initial, idx, start, pc, board, error, before, after>>

\* puzzle.verify() after solve() returned (main.rs:350)
VerifyAfter ==
    /\ pc = "solve" /\ stack = <<>> /\ ret /= "none"
    /\ after' = Some(verify(board))
    /\ pc' = "done"
    /\ UNCHANGED <<initial, idx, start, board, error, stack, ret, before>>

Next ==
    \/ NewStep
    \/ VerifyBefore
    \/ SolveCall
    \/ FindOpen
    \/ TryVal
    \/ ReturnOk
    \/ ReturnErr
    \/ LoopEnd
    \/ VerifyAfter

Spec == Init /\ [][Next]_vars

\* The same program started from the input puzzles and from the empty entry
\* list (an entirely empty board), where the search is 81 cells deep.
InitDeep == InitWith(PuzzleEntries \cup {<<>>})

SpecDeep == InitDeep /\ [][Next]_vars

\* The call chain runs without yielding (single-threaded, synchronous): a step
\* that can be taken is taken.
FairSpec == InitDeep /\ [][Next]_vars /\ WF_vars(Next)

\* Sudoku::new alone, on short entry lists with coordinates and values at and
\* beyond the limits of the checks of main.rs:36 and :42.
EntryRows == {0, 8, 9}
EntryCols == {0, 9}
EntryVals == {0, 1, 9, 10}
Triples == EntryRows \X EntryCols \X EntryVals

SmallEntries == UNION { [1 .. n -> Triples] : n \in 0 .. MaxEntries }

InitNew == InitWith(SmallEntries)

SpecNew == InitNew /\ [][NewStep]_vars


\* ------------------------------------------------------------ reference notions
\* The rules of Sudoku, stated on cells and units rather than by the loops of
\* the program.
Cells == RowIdx \X ColIdx
Digits == 1 .. 9

At(b, cell) == b[cell[1]][cell[2]]

RowUnit(r) == {cell \in Cells : cell[1] = r}
ColUnit(c) == {cell \in Cells : cell[2] = c}
BlockOf(cell) == <<cell[1] \div 3, cell[2] \div 3>>
BlockUnit(blk) == {cell \in Cells : BlockOf(cell) = blk}

Units ==
    {RowUnit(r) : r \in RowIdx} \cup {ColUnit(c) : c \in ColIdx}
    \cup {BlockUnit(blk) : blk \in (0 .. 2) \X (0 .. 2)}

\* Two different cells of one row, column or block.
Peers(a, b) ==
    /\ a /= b
    /\ (a[1] = b[1] \/ a[2] = b[2] \/ BlockOf(a) = BlockOf(b))

\* The cells of the row, the column and the block of a cell (itself included).
Scope ==
    [cell \in Cells |->
        {p \in Cells : p[1] = cell[1] \/ p[2] = cell[2] \/ BlockOf(p) = BlockOf(cell)}]

EachDigitOnce(b) ==
    \A u \in Units : \A d \in Digits :
        Cardinality({cell \in u : At(b, cell) = Some(d)}) = 1

HasEmpty(b) == \E cell \in Cells : At(b, cell) = None

HasRepeat(b) ==
    \E u \in Units : \E x \in u : \E y \in u :
        x /= y /\ At(b, x) /= None /\ At(b, x) = At(b, y)

Consistent(b) == ~ HasRepeat(b)

EmptyCells(b) == {cell \in Cells : At(b, cell) = None}

\* A completion of b gives each empty cell a digit that no filled cell of its
\* row, column or block holds in b (the unit would hold it twice otherwise):
\* all such fillings, then those that are solved grids.
Cand(b, cell) ==
    {d \in Digits : \A p \in Cells : Peers(cell, p) => At(b, p) /= Some(d)}

RECURSIVE Fillings(_, _, _)
Fillings(b, g, todo) ==
    IF todo = {} THEN {g}
    ELSE LET cell == CHOOSE x \in todo : TRUE
         IN  UNION { Fillings(b, [g EXCEPT ![cell[1]][cell[2]] = Some(d)],
                              todo \ {cell}) : d \in Cand(b, cell) }

Completions(b) == {g \in Fillings(b, b, EmptyCells(b)) : EachDigitOnce(g)}

\* g comes before h: at the first cell, row-major, where they differ g holds
\* the smaller digit.
Earlier(a, b) == a[1] < b[1] \/ (a[1] = b[1] /\ a[2] < b[2])

LexLess(g, h) ==
    \E cell \in Cells :
        /\ At(g, cell)[1] < At(h, cell)[1]
        /\ \A e \in Cells : Earlier(e, cell) => At(g, e) = At(h, e)

Built == pc \in {"verify", "solve", "done"}
Returned == pc \in {"solve", "done"} /\ stack = <<>> /\ ret /= "none"


\* ------------------------------------------------------------ claims

\* C1 (as stated): whenever solve() returned Ok, verify() on the resulting
\* board is true, for every board Sudoku::new accepts.
C1_Soundness == (pc = "done" /\ ret = "Ok") => after = Some(TRUE)

\* C2: when the top-level solve() has returned Err, all 81 cells hold what
\* they held before the call.
C2_FailedSearchRestores == (Returned /\ ret = "Err") => board = start

\* A failed search that made at least one placement: the first open cell of
\* the starting board had a legal value, and solve() still returned Err.
C2_Witness ==
    /\ pc = "done" /\ ret = "Err" /\ board = start
    /\ LET cell == find_open_cell_(start)
       IN  /\ cell /= None
           /\ \E v \in Digits : valid_insert(start, cell[1][1], cell[1][2], v)

\* C3: for a puzzle with consistent givens, an empty cell and exactly one
\* completion, verify() is false before solve(), solve() returns Ok, verify()
\* is true afterwards, the grid is that completion and every given is kept.
C3_UniqueCompletionFound ==
    (pc = "done" /\ HasEmpty(start) /\ Consistent(start))
    => LET comps == Completions(start)
       IN  Cardinality(comps) = 1
           => /\ before = Some(FALSE)
              /\ ret = "Ok"
              /\ after = Some(TRUE)
              /\ board \in comps
              /\ \A cell \in Cells :
                    At(start, cell) /= None => At(board, cell) = At(start, cell)

\* A uniquely completable puzzle solved after backtracking: a smaller legal
\* value than the final one existed at the first open cell.
C3_Witness ==
    /\ pc = "done" /\ ret = "Ok" /\ HasEmpty(start) /\ Consistent(start)
    /\ Cardinality(Completions(start)) = 1
    /\ LET cell == find_open_cell_(start)
       IN  \E v \in Digits :
              /\ v < At(board, cell[1])[1]
              /\ valid_insert(start, cell[1][1], cell[1][2], v)

\* C4: if the starting board has at least one completion, the top-level
\* solve() returns Ok, never Err.
C4_ErrOnlyWithoutCompletion ==
    (Returned /\ Completions(start) /= {}) => ret = "Ok"

\* A board with a completion and three or more empty cells, solved.
C4_Witness ==
    /\ Returned /\ ret = "Ok"
    /\ Cardinality(EmptyCells(start)) >= 3
    /\ Completions(start) /= {}

\* C5: Sudoku::new returns Err exactly when some triple is out of range or
\* targets a coordinate an earlier triple set; the Err names the first such
\* triple and no board is returned; otherwise the board holds exactly the
\* supplied triples and None elsewhere.
Offends(i) ==
    \/ initial[i][1] >= 9 \/ initial[i][2] >= 9
    \/ initial[i][3] = 0 \/ initial[i][3] > 9
    \/ \E j \in 1 .. (i - 1) :
          initial[j][1] = initial[i][1] /\ initial[j][2] = initial[i][2]

C5_NewRejectsExactlyInvalid ==
    LET bad == {i \in 1 .. Len(initial) : Offends(i)}
    IN  /\ pc = "rejected" => bad /= {}
        /\ (pc /= "new" /\ bad /= {}) => pc = "rejected"
        /\ pc = "rejected" =>
              /\ board = NoBoard /\ start = NoBoard
              /\ LET k == CHOOSE i \in bad : \A j \in bad : i <= j
                     t == initial[k]
                 IN  error \in { Some(<<"invalid", t[3], t[1], t[2]>>),
                                 Some(<<"exists", t[1], t[2]>>) }
        /\ pc = "verify" =>
              /\ board = start /\ error = None
              /\ \A cell \in Cells :
                    LET given == {i \in 1 .. Len(initial) :
                                     <<initial[i][1], initial[i][2]>> = cell}
                    IN  IF given = {} THEN At(board, cell) = None
                        ELSE \A i \in given : At(board, cell) = Some(initial[i][3])

\* A two-triple list rejected at its second triple, which is in range and
\* repeats the first one's coordinate with another value.
C5_Witness ==
    /\ Len(initial) = 2
    /\ pc = "rejected"
    /\ error = Some(<<"exists", initial[2][1], initial[2][2]>>)
    /\ initial[1][3] /= initial[2][3]

\* C6: verify() is true exactly when every row, column and block holds each
\* digit 1..9 once; an empty cell or a repeated digit makes it false; and the
\* board is the same after verify() as before.
C6_VerifyIffEachDigitOnce ==
    /\ Built =>
          /\ verify(board) <=> EachDigitOnce(board)
          /\ (HasEmpty(board) \/ HasRepeat(board)) => ~ verify(board)
    /\ before /= None => before = Some(EachDigitOnce(start))
    /\ after /= None => after = Some(EachDigitOnce(board))
    /\ (pc = "solve" /\ stack = <<>> /\ ret = "none") => board = start

\* verify() said false of a board with no empty cell: a repeated digit is
\* what it found.
C6_Witness ==
    /\ pc = "done"
    /\ after = Some(FALSE) /\ ~ HasEmpty(board) /\ HasRepeat(board)

\* C7: valid_insert(row, col, value) is true exactly when the cell is empty
\* and no cell of its row, its column or its 3x3 block holds the value.
C7_ValidInsertIff ==
    Built =>
       \A cell \in Cells :
          LET held == {At(board, p) : p \in Scope[cell]}
          IN  \A v \in Digits :
                 valid_insert(board, cell[1], cell[2], v)
                 <=> (At(board, cell) = None /\ Some(v) \notin held)

\* An empty cell whose row and column lack a value that its block holds, and
\* a value it may take.
C7_Witness ==
    /\ Built
    /\ \E cell \in Cells : \E v \in Digits : \E w \in Digits :
          /\ At(board, cell) = None
          /\ valid_row_insert_(board, cell[1], v)
          /\ valid_col_insert_(board, cell[2], v)
          /\ ~ valid_insert(board, cell[1], cell[2], v)
          /\ valid_insert(board, cell[1], cell[2], w)

\* C8: for a starting board with at least one completion, solve() ends with
\* the grid equal to the completion that comes first cell by cell in
\* row-major order with smaller digits first.
C8_FirstCompletion ==
    Returned =>
       LET comps == Completions(start)
       IN  comps /= {} =>
              /\ board \in comps
              /\ \A g \in comps : g = board \/ LexLess(board, g)

\* A board with two completions, solved.
C8_Witness ==
    /\ Returned /\ ret = "Ok"
    /\ Cardinality(Completions(start)) >= 2
    /\ board \in Completions(start)

\* C9 (as stated): at most 81 solve() invocations are active at any time.
C9_DepthAtMost81 == Len(stack) <= ROWS * COLS

\* C9 (amended): at most 82 are, one per empty cell of the starting board
\* and the innermost one, which finds no empty cell.
C9_DepthAtMostEmptyPlusOne ==
    /\ Len(stack) <= ROWS * COLS + 1
    /\ Built => Len(stack) <= Cardinality(EmptyCells(start)) + 1

\* The empty board, all 81 cells placed, and the 82nd invocation active.
C9_Witness ==
    /\ Len(stack) = ROWS * COLS + 1
    /\ EmptyCells(start) = Cells
    /\ ~ HasEmpty(board)

\* C10: the top-level solve() eventually returns, whatever the accepted board.
C10_Terminates == <>(pc = "done")

\* solve() has returned on the empty board, the longest search of the model.
C10_Witness ==
    /\ pc = "done"
    /\ ret = "Ok" /\ EmptyCells(start) = Cells

====
